---- MODULE Spec2Model ----
\* A model of xmtp-listener.js: the XMTPService relay pipeline (initializeClient,
\* getInboxIdFromAddress, sendMessage, close) and the EthereumRedisListener.
\* Every `await` of the source is a scheduling point: an action runs the code
\* from one resumption to the next await.
EXTENDS Integers, Sequences, FiniteSets, TLC

VARIABLES
    config,      \* this.config of each XMTPService (fixed at construction)
    client,      \* this.client of each XMTPService (NoClient is null)
    nCreate,     \* number of Client.create calls made so far (also names the handles)
    inv,         \* the in-flight or finished invocation of each caller
    subscriber,  \* EthereumRedisListener.subscriber
    isConnected, \* EthereumRedisListener.isConnected
    subscribed,  \* whether the channel callback is registered
    handled,     \* what handleMessage logged for each bus message, in order
    relayCalls,  \* relay requests the listener handed to the pipeline
    crashed,     \* an exception escaped the message callback
    mainPc,      \* where main() stands
    exitStatus,  \* the code given to process.exit ("no" while running)
    bus,         \* the redis client's connection: "none", "open" or "closed"
    stop,        \* the disconnect() invocation of each of its callers
    nStops,      \* number of disconnect() calls made so far
    lastEvent,   \* the last bus event a handler of connect() logged
    env,         \* a validateEnvironment call: its inputs, process.env, its outcome
    util,        \* a sendXMTPMessage call: where it stands and what it returned
    batch        \* a sendMessages call: its list, its loop position, its results

vars == <<config, client, nCreate, inv, subscriber, isConnected, subscribed,
          handled, relayCalls, crashed, mainPc, exitStatus, bus, stop, nStops,
          lastEvent, env, util, batch>>
svcVars == <<config, client, nCreate, inv>>
busVars == <<subscriber, isConnected, subscribed, handled, relayCalls, crashed,
            mainPc, exitStatus, bus, stop, nStops, lastEvent, env,
            util, batch>>

\* everything but the service and the calls of its utility functions
hostVars == <<subscriber, isConnected, subscribed, handled, relayCalls, crashed,
             mainPc, exitStatus, bus, stop, nStops, lastEvent, env>>

-----------------------------------------------------------------------------
\* Bounds

MaxMsgs == 3     \* bus messages delivered
MaxStops == 2    \* calls of disconnect()
MaxVars == 2     \* required keys passed to validateEnvironment
MaxLines == 2    \* lines of the .env file
MaxRecipients == 2    \* longest list handed to sendMessages

-----------------------------------------------------------------------------
\* Values

Services == {"s1", "s2"}
\* Two concurrent callers. Both may call initializeClient; the whole pipeline of
\* sendMessage is followed for the callers in Relayers. A second sendMessage acts
\* on the state shared with the first (this.client) only through its
\* initializeClient call, which caller "b" makes.
Callers == {"a", "b"}
Relayers == {"a"}
NoClient == 0
NoInbox == "null"
NoConv == "null"

\* String.prototype.toLowerCase on the addresses and identifiers of the model
toLowerCase(a) ==
    CASE a = "0xAB" -> "0xab"
      [] a = "0xEE" -> "0xee"
      [] OTHER -> a
Recipients == {"0xAB", "0xee"}

\* What conversations.list() can resolve to, and the identifiers the network
\* knows for each inbox.
ConvList ==
    { << >>,
      << [id |-> "c1", members |-> <<"ibSelf", "ibA">>],
         [id |-> "c3", members |-> <<"ibA2">>] >>,
      << [id |-> "g1", members |-> << >>],
         [id |-> "c2", members |-> <<"ibSelf", "ibE">>] >> }
InboxIdentifiers(inbox) ==
    CASE inbox = "ibA" -> <<"0xab">>
      [] inbox = "ibA2" -> <<"0xAB">>
      [] inbox = "ibE" -> <<"0x11", "0xEE">>
      [] OTHER -> <<"0x5e1f">>
ConvIds == {"c1", "c2", "dmNew"}
MessageIds == {"m1"}

\* Values a rejected SDK promise can carry: Error objects (the message may be
\* empty, as in `new Error()`), or a thrown non-Error value.
Err(m) == [isError |-> TRUE, message |-> m]
Thrown == { Err(<< >>), Err(<<"network down">>),
            [isError |-> FALSE, message |-> <<"boom">>] }
\* String(error) / `${error}`
String(e) ==
    IF e.isError
    THEN IF e.message = << >> THEN <<"Error">> ELSE <<"Error: ">> \o e.message
    ELSE e.message
\* error.message as a template operand: undefined on a non-Error value
MessageOf(e) == IF e.isError THEN e.message ELSE <<"undefined">>
NullDeref == Err(<<"Cannot read properties of null">>)

\* Who calls disconnect(): the two signal handlers of main, and a program that
\* uses the exported class.
Signals == {"SIGINT", "SIGTERM"}
StopCallers == Signals \cup {"api"}
\* A disconnect() invocation: where it stands, the bus operations it has issued
\* (each with the state of the connection it was issued on), and whether an
\* exception left it.
NotStopping == [pc |-> "idle", ops |-> << >>, threw |-> FALSE]
Issued(op) == [op |-> op, on |-> bus]

-----------------------------------------------------------------------------
\* Invocation records

Pending == [pending |-> TRUE]
Idle ==
    [pc |-> "idle", kind |-> "none", svc |-> "none", addr |-> "none",
     ret |-> "none", initErr |-> << >>, handle |-> NoClient,
     convs |-> << >>, ci |-> 0, mi |-> 0, fetched |-> << >>, inboxId |-> NoInbox,
     existing |-> NoConv, conv |-> NoConv, asked |-> "none",
     canReceive |-> "unset", newDmArg |-> "none", dmError |-> << >>,
     trace |-> << >>, thrown |-> << >>, result |-> Pending,
     afterFailure |-> FALSE, closedDuring |-> FALSE]

\* History: an invocation on service s starts after another one's
\* initializeClient on s has thrown to its caller (line 278, or line 331).
InitFailedBefore(s) ==
    \E j \in DOMAIN inv :
        /\ inv[j].pc = "done"
        /\ inv[j].svc = s
        /\ \/ "threw" \in DOMAIN inv[j].result
           \/ \E k \in 1..Len(inv[j].thrown) : inv[j].thrown[k] = "init"

\* the SDK calls an invocation has made, in order
Called(r, op) == [r EXCEPT !.trace = Append(@, op)]
Threw(r, site) == [r EXCEPT !.thrown = Append(@, site)]

-----------------------------------------------------------------------------
\* RelayResult values (sendMessage, lines 376-379 and 385-388)

SuccessResult(sentMessage) == [success |-> TRUE, messageId |-> sentMessage.id]

\* FailureResult as it would be if the catch block also filled in messageId
FailureResult_withMessageId(error) ==
    [success |-> FALSE,
     error |-> IF error.isError THEN error.message ELSE String(error),
     messageId |-> "undefined"]

\* errorMessage = error instanceof Error ? error.message : String(error)
FailureResult(error) ==
    [success |-> FALSE,
     error |-> IF error.isError THEN error.message ELSE String(error)]

\* the catch block of sendMessage
Fail(r, site, error) ==
    [Threw(r, site) EXCEPT !.pc = "done", !.result = FailureResult(error)]

InitializationError(error) ==
    Err(<<"Failed to initialize XMTP client: ">> \o String(error))
NotInitializedError == Err(<<"XMTP client not initialized">>)
CannotReceiveError(address) ==
    Err(<<"Address ", address, " cannot receive XMTP messages">>)
CreationError(address, dmError) ==
    Err(<<"Cannot create conversation with ", address,
          ". They may need to be active on XMTP first. Original error: ">>
        \o MessageOf(dmError))

-----------------------------------------------------------------------------
\* initializeClient (lines 261-281)

\* EnterInit as it would be without the `if (this.client) return`
EnterInit_noCacheTest(r, cl, cfg, ret) ==
    LET r0 == [r EXCEPT !.ret = ret, !.initErr = << >>] IN
    IF cfg.privateKey = "valid"
    THEN [r0 EXCEPT !.pc = "init_key"]
    ELSE [r0 EXCEPT !.pc = "init_ret",
                    !.initErr = <<InitializationError(Err(<<"invalid private key">>))>>]

\* The synchronous head of initializeClient: the cache test, then createSigner,
\* up to `await getEncryptionKeyFromHex`. `ret` is where the call returns to.
EnterInit(r, cl, cfg, ret) ==
    LET r0 == [r EXCEPT !.ret = ret, !.initErr = << >>] IN
    IF cl # NoClient
    THEN [r0 EXCEPT !.pc = "init_ret"]
    ELSE IF cfg.privateKey = "valid"
         THEN [r0 EXCEPT !.pc = "init_key"]
         ELSE [r0 EXCEPT !.pc = "init_ret",
                         !.initErr = <<InitializationError(Err(<<"invalid private key">>))>>]

\* a caller invokes initializeClient directly
initializeClient(i, s) ==
    /\ inv[i].pc = "idle"
    /\ inv' = [inv EXCEPT ![i] =
                 EnterInit([Idle EXCEPT !.kind = "initializeClient", !.svc = s,
                                        !.afterFailure = InitFailedBefore(s)],
                           client[s], config[s], "direct")]
    /\ UNCHANGED <<config, client, nCreate, busVars>>

\* getEncryptionKeyFromHex resolved: Client.create is called
DecodeKeyResolved(i) ==
    /\ inv[i].pc = "init_key"
    /\ nCreate' = nCreate + 1
    /\ inv' = [inv EXCEPT ![i] =
                 Called([@ EXCEPT !.pc = "init_create", !.handle = nCreate + 1],
                        "create")]
    /\ UNCHANGED <<config, client, busVars>>

DecodeKeyRejected(i, e) ==
    /\ inv[i].pc = "init_key"
    /\ inv' = [inv EXCEPT ![i] =
                 [@ EXCEPT !.pc = "init_ret", !.initErr = <<InitializationError(e)>>]]
    /\ UNCHANGED <<config, client, nCreate, busVars>>

\* this.client = await Client.create(...)
CreateResolved(i) ==
    /\ inv[i].pc = "init_create"
    /\ client' = [client EXCEPT ![inv[i].svc] = inv[i].handle]
    /\ inv' = [inv EXCEPT ![i] = [@ EXCEPT !.pc = "init_ret"]]
    /\ UNCHANGED <<config, nCreate, busVars>>

\* CreateRejected as it would be if the handle under construction were cached
\* before the await settled
CreateRejected_keepsHandle(i, e) ==
    /\ inv[i].pc = "init_create"
    /\ client' = [client EXCEPT ![inv[i].svc] = inv[i].handle]
    /\ inv' = [inv EXCEPT ![i] =
                 [@ EXCEPT !.pc = "init_ret", !.initErr = <<InitializationError(e)>>]]
    /\ UNCHANGED <<config, nCreate, busVars>>

\* Client.create rejected: the catch block of lines 277-280
CreateRejected(i, e) ==
    /\ inv[i].pc = "init_create"
    /\ inv' = [inv EXCEPT ![i] =
                 [@ EXCEPT !.pc = "init_ret", !.initErr = <<InitializationError(e)>>]]
    /\ UNCHANGED <<config, client, nCreate, busVars>>

\* the direct caller's await of initializeClient completes
InitializeClientReturns(i) ==
    /\ inv[i].pc = "init_ret"
    /\ inv[i].ret = "direct"
    /\ inv' = [inv EXCEPT ![i] =
                 [@ EXCEPT !.pc = "done",
                           !.result = IF inv[i].initErr = << >>
                                      THEN [returned |-> TRUE]
                                      ELSE [threw |-> inv[i].initErr[1]]]]
    /\ UNCHANGED <<config, client, nCreate, busVars>>

-----------------------------------------------------------------------------
\* getInboxIdFromAddress (lines 289-321)

\* return from getInboxIdFromAddress; sendMessage awaits it at line 341
ScanReturns(r, inboxId) == [r EXCEPT !.pc = "scan_ret", !.inboxId = inboxId]

\* the catch block: log and return null
ScanFails(r) == ScanReturns(Threw(r, "scan"), NoInbox)

\* The two for-loops from position (ci, mi) up to the next
\* `await inboxStateFromInboxIds([member.inboxId])`, or to `return null`.
RECURSIVE ScanFrom(_, _, _, _)
ScanFrom(r, ci, mi, cl) ==
    IF ci > Len(r.convs)
    THEN ScanReturns(r, NoInbox)
    ELSE IF mi > Len(r.convs[ci].members)
    THEN ScanFrom(r, ci + 1, 1, cl)
    ELSE IF cl = NoClient
    THEN ScanFails(r)
    ELSE Called([r EXCEPT !.pc = "member", !.ci = ci, !.mi = mi],
                "inboxStateFromInboxIds")

\* Matches as it would be with `===` on the strings as they are
Matches_caseSensitive(identifiers, address) ==
    \E k \in 1..Len(identifiers) : identifiers[k] = address

\* line 308, over the identifiers of one member state
Matches(identifiers, address) ==
    \E k \in 1..Len(identifiers) :
        toLowerCase(identifiers[k]) = toLowerCase(address)

\* line 291 completes: lines 293-301
ScanAfterInit(i) ==
    /\ inv[i].pc = "init_ret"
    /\ inv[i].ret = "scan"
    /\ inv' = [inv EXCEPT ![i] =
                 IF @.initErr # << >> \/ client[@.svc] = NoClient
                 THEN ScanFails(@)
                 ELSE Called([@ EXCEPT !.pc = "list"], "list")]
    /\ UNCHANGED <<config, client, nCreate, busVars>>

ListResolved(i, conversations) ==
    /\ inv[i].pc = "list"
    /\ inv' = [inv EXCEPT ![i] =
                 ScanFrom([@ EXCEPT !.convs = conversations], 1, 1, client[@.svc])]
    /\ UNCHANGED <<config, client, nCreate, busVars>>

\* a rejection inside the scan is logged and dropped, whatever its value
ListRejected(i) ==
    /\ inv[i].pc = "list"
    /\ inv' = [inv EXCEPT ![i] = ScanFails(@)]
    /\ UNCHANGED <<config, client, nCreate, busVars>>

\* what inboxStateFromInboxIds can resolve to: no state, or the inbox's state
MemberStates ==
    { << >> } \cup { <<[identifiers |-> InboxIdentifiers(ib)]>> :
                       ib \in {"ibSelf", "ibA", "ibA2", "ibE"} }

\* line 305 resolved with memberState; lines 306-313 and the next iteration
MemberResolved(i, memberState) ==
    /\ inv[i].pc = "member"
    /\ LET r == inv[i]
           member == r.convs[r.ci].members[r.mi]
           seen == [r EXCEPT !.fetched = Append(@, memberState)]
       IN /\ memberState \in { << >>, <<[identifiers |-> InboxIdentifiers(member)]>> }
          /\ inv' = [inv EXCEPT ![i] =
                       IF memberState # << >>
                          /\ Matches(memberState[1].identifiers, r.addr)
                       THEN ScanReturns(seen, member)
                       ELSE ScanFrom(seen, r.ci, r.mi + 1, client[r.svc])]
    /\ UNCHANGED <<config, client, nCreate, busVars>>

MemberRejected(i) ==
    /\ inv[i].pc = "member"
    /\ inv' = [inv EXCEPT ![i] = ScanFails(@)]
    /\ UNCHANGED <<config, client, nCreate, busVars>>

-----------------------------------------------------------------------------
\* sendMessage (lines 329-390)

\* conversation.send(message), line 372
SendThrough(r, conversation) ==
    Called([r EXCEPT !.pc = "send", !.conv = conversation], "send")

\* Client.canMessage([{identifier: recipientAddress.toLowerCase(), ...}], env)
CheckCapability(r) ==
    Called([r EXCEPT !.pc = "can_msg", !.asked = toLowerCase(r.addr)], "canMessage")

\* The maps Client.canMessage can resolve to for one identifier: an entry for it,
\* or none.
CanMessageMaps(identifier) ==
    UNION { [keys -> BOOLEAN] : keys \in { {}, {identifier} } }

\* Map.prototype.get
MapGet(map, key) == IF key \in DOMAIN map THEN map[key] ELSE FALSE

\* a caller invokes sendMessage(recipientAddress, message): up to the await of line 331
sendMessage(i, s, recipientAddress) ==
    /\ inv[i].pc = "idle"
    /\ inv' = [inv EXCEPT ![i] =
                 EnterInit([Idle EXCEPT !.kind = "sendMessage", !.svc = s,
                                        !.addr = recipientAddress,
                                        !.afterFailure = InitFailedBefore(s)],
                           client[s], config[s], "send")]
    /\ UNCHANGED <<config, client, nCreate, busVars>>

\* SendAfterInit as it would be without `await client.conversations.sync()`
SendAfterInit_noSync(i) ==
    /\ inv[i].pc = "init_ret"
    /\ inv[i].ret = "send"
    /\ inv' = [inv EXCEPT ![i] =
                 IF @.initErr # << >>
                 THEN Fail(@, "init", @.initErr[1])
                 ELSE IF client[@.svc] = NoClient
                 THEN Fail(@, "notInitialized", NotInitializedError)
                 ELSE EnterInit(@, client[@.svc], config[@.svc], "scan")]
    /\ UNCHANGED <<config, client, nCreate, busVars>>

\* line 331 completes: lines 333-337
SendAfterInit(i) ==
    /\ inv[i].pc = "init_ret"
    /\ inv[i].ret = "send"
    /\ inv' = [inv EXCEPT ![i] =
                 IF @.initErr # << >>
                 THEN Fail(@, "init", @.initErr[1])
                 ELSE IF client[@.svc] = NoClient
                 THEN Fail(@, "notInitialized", NotInitializedError)
                 ELSE Called([@ EXCEPT !.pc = "sync"], "sync")]
    /\ UNCHANGED <<config, client, nCreate, busVars>>

\* line 337 resolved: getInboxIdFromAddress is entered (line 341 -> 291)
SyncResolved(i) ==
    /\ inv[i].pc = "sync"
    /\ inv' = [inv EXCEPT ![i] = EnterInit(@, client[@.svc], config[@.svc], "scan")]
    /\ UNCHANGED <<config, client, nCreate, busVars>>

\* SyncRejected as it would be if the sync were wrapped in its own try/catch
SyncRejected_swallowed(i, e) ==
    /\ inv[i].pc = "sync"
    /\ inv' = [inv EXCEPT ![i] =
                 EnterInit(Threw(@, "sync"), client[@.svc], config[@.svc], "scan")]
    /\ UNCHANGED <<config, client, nCreate, busVars>>

SyncRejected(i, e) ==
    /\ inv[i].pc = "sync"
    /\ inv' = [inv EXCEPT ![i] = Fail(@, "sync", e)]
    /\ UNCHANGED <<config, client, nCreate, busVars>>

\* line 341 completes: lines 343-350. The locals of the scan are gone.
AfterScan(r, cl) ==
    LET r0 == [r EXCEPT !.convs = << >>, !.ci = 0, !.mi = 0, !.fetched = << >>] IN
    IF r0.inboxId # NoInbox
    THEN IF cl = NoClient
         THEN Fail(r0, "getDm", NullDeref)
         ELSE Called([r0 EXCEPT !.pc = "get_dm"], "getDmByInboxId")
    ELSE CheckCapability(r0)

ScanCompletes(i) ==
    /\ inv[i].pc = "scan_ret"
    /\ inv' = [inv EXCEPT ![i] = AfterScan(@, client[@.svc])]
    /\ UNCHANGED <<config, client, nCreate, busVars>>

\* AfterGetDm as it would be if the capability check were made whatever was found
AfterGetDm_alwaysChecks(r, conversation) ==
    CheckCapability([r EXCEPT !.existing = conversation])

\* line 345 resolved with `conversation` (NoConv is undefined): lines 348-350 or 372
AfterGetDm(r, conversation) ==
    IF conversation # NoConv
    THEN SendThrough([r EXCEPT !.existing = conversation], conversation)
    ELSE CheckCapability(r)

GetDmResolved(i, conversation) ==
    /\ inv[i].pc = "get_dm"
    /\ inv' = [inv EXCEPT ![i] = AfterGetDm(@, conversation)]
    /\ UNCHANGED <<config, client, nCreate, busVars>>

GetDmRejected(i, e) ==
    /\ inv[i].pc = "get_dm"
    /\ inv' = [inv EXCEPT ![i] = Fail(@, "getDm", e)]
    /\ UNCHANGED <<config, client, nCreate, busVars>>

\* AfterCanMessage as it would be without the test of line 355
AfterCanMessage_ignoresAnswer(r, canReceive, cl) ==
    LET answer == IF MapGet(canReceive, toLowerCase(r.addr)) THEN "yes" ELSE "no" IN
    IF cl = NoClient
    THEN Fail([r EXCEPT !.canReceive = answer, !.dmError = <<NullDeref>>], "newDm",
              CreationError(r.addr, NullDeref))
    ELSE Called([r EXCEPT !.canReceive = answer, !.pc = "new_dm",
                          !.newDmArg = r.addr], "newDm")

\* line 350 resolved with the map canReceive: lines 355-366
AfterCanMessage(r, canReceive, cl) ==
    IF ~MapGet(canReceive, toLowerCase(r.addr))
    THEN Fail([r EXCEPT !.canReceive = "no"], "cannotReceive",
              CannotReceiveError(r.addr))
    ELSE IF cl = NoClient
    THEN Fail([r EXCEPT !.canReceive = "yes", !.dmError = <<NullDeref>>], "newDm",
              CreationError(r.addr, NullDeref))
    ELSE Called([r EXCEPT !.canReceive = "yes", !.pc = "new_dm",
                          !.newDmArg = r.addr], "newDm")

CanMessageResolved(i, canReceive) ==
    /\ inv[i].pc = "can_msg"
    /\ canReceive \in CanMessageMaps(inv[i].asked)
    /\ inv' = [inv EXCEPT ![i] = AfterCanMessage(@, canReceive, client[@.svc])]
    /\ UNCHANGED <<config, client, nCreate, busVars>>

CanMessageRejected(i, e) ==
    /\ inv[i].pc = "can_msg"
    /\ inv' = [inv EXCEPT ![i] = Fail(@, "canMessage", e)]
    /\ UNCHANGED <<config, client, nCreate, busVars>>

\* line 366 resolved
NewDmResolved(i, conversation) ==
    /\ inv[i].pc = "new_dm"
    /\ inv' = [inv EXCEPT ![i] = SendThrough(@, conversation)]
    /\ UNCHANGED <<config, client, nCreate, busVars>>

\* AfterNewDmError as it would be if the inner catch rethrew dmError as it is
AfterNewDmError_unwrapped(r, dmError) ==
    Fail([r EXCEPT !.dmError = <<dmError>>], "newDm", dmError)

\* the inner catch, lines 367-369
AfterNewDmError(r, dmError) ==
    Fail([r EXCEPT !.dmError = <<dmError>>], "newDm", CreationError(r.addr, dmError))

NewDmRejected(i, dmError) ==
    /\ inv[i].pc = "new_dm"
    /\ inv' = [inv EXCEPT ![i] = AfterNewDmError(@, dmError)]
    /\ UNCHANGED <<config, client, nCreate, busVars>>

\* line 372 resolved: lines 374-379
SendResolved(i, sentMessage) ==
    /\ inv[i].pc = "send"
    /\ inv' = [inv EXCEPT ![i] =
                 [@ EXCEPT !.pc = "done", !.result = SuccessResult(sentMessage)]]
    /\ UNCHANGED <<config, client, nCreate, busVars>>

SendRejected(i, e) ==
    /\ inv[i].pc = "send"
    /\ inv' = [inv EXCEPT ![i] = Fail(@, "send", e)]
    /\ UNCHANGED <<config, client, nCreate, busVars>>

\* close (lines 447-452): `if (this.client) { this.client = null; ... }`.
\* History: the relay invocations on s that were in flight when a handle was
\* dropped.
close(s) ==
    /\ client' = [client EXCEPT ![s] = NoClient]
    /\ inv' = [i \in Callers |->
                 IF /\ client[s] # NoClient
                    /\ inv[i].svc = s
                    /\ inv[i].kind = "sendMessage"
                    /\ inv[i].pc \notin {"idle", "done"}
                 THEN [inv[i] EXCEPT !.closedDuring = TRUE]
                 ELSE inv[i]]
    /\ UNCHANGED <<config, nCreate, busVars>>

-----------------------------------------------------------------------------
\* sendXMTPMessage (lines 472-498) and XMTPService.canMessage (lines 413-442)

\* The function makes a service of its own (line 473) and is its only user.
UtilService == "s1"
UtilCaller == "a"
NoUtil ==
    [pc |-> "idle", address |-> "none", canReceive |-> "unset", sent |-> FALSE,
     ret |-> << >>, threw |-> FALSE]

\* xmtpService.canMessage(address) for one address, once Client.canMessage has
\* resolved to `map`: canMessageMap.get(addresses.toLowerCase()) || false
canMessage(map, address) == MapGet(map, toLowerCase(address))

\* `return value` inside the try block: the finally block calls close(), whose
\* body runs at the call, and awaits it
ReturnThroughFinally(u, value) == [u EXCEPT !.pc = "closing", !.ret = <<value>>]

\* the call, up to `await Client.canMessage(...)` inside xmtpService.canMessage
sendXMTPMessage(address) ==
    /\ util.pc = "idle"
    /\ inv[UtilCaller].pc = "idle"
    /\ client[UtilService] = NoClient
    /\ util' = [NoUtil EXCEPT !.pc = "can_msg", !.address = address]
    /\ UNCHANGED <<svcVars, hostVars, batch>>

\* lines 475-479 when the check says no: return false, no sendMessage
UtilCannotReceive(u) == ReturnThroughFinally([u EXCEPT !.canReceive = "no"], FALSE)

\* Client.canMessage resolved inside xmtpService.canMessage: lines 475-481, up to
\* the first await of sendMessage
UtilCanMessageResolved(map) ==
    /\ util.pc = "can_msg"
    /\ map \in CanMessageMaps(toLowerCase(util.address))
    /\ IF canMessage(map, util.address)
       THEN /\ util' = [util EXCEPT !.pc = "sending", !.canReceive = "yes"]
            /\ inv' = [inv EXCEPT ![UtilCaller] =
                         EnterInit([Idle EXCEPT !.kind = "sendMessage",
                                                !.svc = UtilService,
                                                !.addr = util.address],
                                   client[UtilService], config[UtilService], "send")]
            /\ client' = client
       ELSE /\ util' = UtilCannotReceive(util)
            /\ client' = [client EXCEPT ![UtilService] = NoClient]
            /\ inv' = inv
    /\ UNCHANGED <<config, nCreate, hostVars, batch>>

\* Client.canMessage rejected: the catch block of xmtpService.canMessage
\* (lines 434-441) returns false
UtilCanMessageRejected ==
    /\ util.pc = "can_msg"
    /\ util' = UtilCannotReceive(util)
    /\ client' = [client EXCEPT ![UtilService] = NoClient]
    /\ UNCHANGED <<config, nCreate, inv, hostVars, batch>>

\* UtilAfterSend as it would be if close() were called on the failure path only
UtilAfterSend_closesOnFailureOnly ==
    /\ util.pc = "sending"
    /\ inv[UtilCaller].pc = "done"
    /\ util' = ReturnThroughFinally([util EXCEPT !.sent = TRUE],
                                    inv[UtilCaller].result.success)
    /\ client' = IF inv[UtilCaller].result.success THEN client
                 ELSE [client EXCEPT ![UtilService] = NoClient]
    /\ UNCHANGED <<config, nCreate, inv, hostVars, batch>>

\* sendMessage returned `result`: lines 483-489, then the finally block
UtilAfterSend ==
    /\ util.pc = "sending"
    /\ inv[UtilCaller].pc = "done"
    /\ util' = ReturnThroughFinally([util EXCEPT !.sent = TRUE],
                                    inv[UtilCaller].result.success)
    /\ client' = [client EXCEPT ![UtilService] = NoClient]
    /\ UNCHANGED <<config, nCreate, inv, hostVars, batch>>

\* `await xmtpService.close()` completes and the function returns
UtilReturns ==
    /\ util.pc = "closing"
    /\ util' = [util EXCEPT !.pc = "returned"]
    /\ UNCHANGED <<svcVars, hostVars, batch>>

-----------------------------------------------------------------------------
\* sendMessages (lines 397-406)

Messages == {"gm"}
Recipient == [address : Recipients, message : Messages]
RecipientLists == UNION { [1..n -> Recipient] : n \in 0..MaxRecipients }

\* History: `sentTo` is the address each sendMessage call was given and what
\* it returned, in call order; `threw` is set if a call threw instead.
NoBatch == [pc |-> "idle", recipients |-> << >>, results |-> << >>,
            sentTo |-> << >>, threw |-> FALSE]

\* line 401 up to its await: this.sendMessage(recipient.address, recipient.message)
RelayTo(recipient) ==
    EnterInit([Idle EXCEPT !.kind = "sendMessage", !.svc = UtilService,
                           !.addr = recipient.address,
                           !.afterFailure = InitFailedBefore(UtilService)],
              client[UtilService], config[UtilService], "send")

\* lines 398-401: `const results = []`, then the first pass of the loop up to
\* its await; with an empty list, line 405 at once
sendMessages(recipients) ==
    /\ batch.pc = "idle"
    /\ inv[UtilCaller].pc = "idle"
    /\ IF recipients = << >>
       THEN /\ batch' = [NoBatch EXCEPT !.pc = "returned"]
            /\ inv' = inv
       ELSE /\ batch' = [NoBatch EXCEPT !.pc = "relaying", !.recipients = recipients]
            /\ inv' = [inv EXCEPT ![UtilCaller] = RelayTo(recipients[1])]
    /\ UNCHANGED <<config, client, nCreate, hostVars, util>>

\* BatchAfterSend as it would be if the loop ended at the first failed relay
BatchAfterSend_stopsAtFailure ==
    /\ batch.pc = "relaying"
    /\ inv[UtilCaller].pc = "done"
    /\ LET result == inv[UtilCaller].result
           results == Append(batch.results, result)
           b == [batch EXCEPT !.results = results,
                              !.sentTo = Append(@, [address |-> inv[UtilCaller].addr,
                                                    result |-> result])]
       IN IF "threw" \in DOMAIN result
          THEN /\ batch' = [batch EXCEPT !.pc = "returned", !.threw = TRUE]
               /\ inv' = inv
          ELSE IF Len(results) < Len(batch.recipients) /\ result.success
               THEN /\ batch' = b
                    /\ inv' = [inv EXCEPT ![UtilCaller] =
                                 RelayTo(batch.recipients[Len(results) + 1])]
               ELSE /\ batch' = [b EXCEPT !.pc = "returned"]
                    /\ inv' = inv
    /\ UNCHANGED <<config, client, nCreate, hostVars, util>>

\* the awaited sendMessage returned: line 402, then the next pass of the loop
\* up to its await, or line 405
BatchAfterSend ==
    /\ batch.pc = "relaying"
    /\ inv[UtilCaller].pc = "done"
    /\ LET result == inv[UtilCaller].result
           results == Append(batch.results, result)
           b == [batch EXCEPT !.results = results,
                              !.sentTo = Append(@, [address |-> inv[UtilCaller].addr,
                                                    result |-> result])]
       IN IF "threw" \in DOMAIN result
          THEN /\ batch' = [batch EXCEPT !.pc = "returned", !.threw = TRUE]
               /\ inv' = inv
          ELSE IF Len(results) < Len(batch.recipients)
               THEN /\ batch' = b
                    /\ inv' = [inv EXCEPT ![UtilCaller] =
                                 RelayTo(batch.recipients[Len(results) + 1])]
               ELSE /\ batch' = [b EXCEPT !.pc = "returned"]
                    /\ inv' = inv
    /\ UNCHANGED <<config, client, nCreate, hostVars, util>>

-----------------------------------------------------------------------------
\* validateEnvironment (lines 198-234)

\* Strings are sequences of tokens: a word, "=", "#" or " " (white space).
RECURSIVE TrimStart(_)
TrimStart(t) == IF t # << >> /\ Head(t) = " " THEN TrimStart(Tail(t)) ELSE t
RECURSIVE TrimEnd(_)
TrimEnd(t) ==
    IF t # << >> /\ t[Len(t)] = " " THEN TrimEnd(SubSeq(t, 1, Len(t) - 1)) ELSE t
\* String.prototype.trim
trim(t) == TrimEnd(TrimStart(t))

\* line.split("=")
RECURSIVE split(_)
split(t) ==
    IF \E i \in 1..Len(t) : t[i] = "="
    THEN LET i == CHOOSE i \in 1..Len(t) :
                      t[i] = "=" /\ \A j \in 1..(i - 1) : t[j] # "="
         IN <<SubSeq(t, 1, i - 1)>> \o split(SubSeq(t, i + 1, Len(t)))
    ELSE <<t>>

\* val.join("=")
RECURSIVE join(_)
join(val) ==
    IF val = << >> THEN << >>
    ELSE IF Len(val) = 1 THEN val[1]
    ELSE val[1] \o <<"=">> \o join(Tail(val))

startsWith(line, c) == line # << >> /\ line[1] = c

\* the reduce of lines 210-214 over the lines kept by the filter of line 209:
\* acc[key.trim()] = val.join("=").trim(), a later line replacing an earlier one
RECURSIVE parseLines(_, _)
parseLines(lines, acc) ==
    IF lines = << >> THEN acc
    ELSE LET line == Head(lines)
             key == split(line)[1]
             val == Tail(split(line))
             kept == trim(line) # << >> /\ ~startsWith(line, "#")
         IN IF kept /\ key # << >> /\ val # << >>
            THEN parseLines(Tail(lines),
                            [k \in DOMAIN acc \cup {trim(key)} |->
                                IF k = trim(key) THEN trim(join(val)) ELSE acc[k]])
            ELSE parseLines(Tail(lines), acc)

\* a property read that gives undefined when the key is absent, as a truth value
Truthy(object, key) == key \in DOMAIN object /\ object[key] # << >>

\* Backfill as it would be if every required key were taken from the file
Backfill_allKeys(processEnv, names, missing, envVars) ==
    [k \in DOMAIN processEnv \cup
           { names[i] : i \in { i \in 1..Len(names) : Truthy(envVars, <<names[i]>>) } } |->
        IF (\E i \in 1..Len(names) : names[i] = k) /\ Truthy(envVars, <<k>>)
        THEN envVars[<<k>>] ELSE processEnv[k]]

\* missing.forEach(v => { if (envVars[v]) process.env[v] = envVars[v] }), lines 216-218
Backfill(processEnv, names, missing, envVars) ==
    [k \in DOMAIN processEnv \cup { v \in missing : Truthy(envVars, <<v>>) } |->
        IF k \in missing /\ Truthy(envVars, <<k>>)
        THEN envVars[<<k>>] ELSE processEnv[k]]

\* vars.filter(v => !process.env[v]), lines 199 and 224 (names is `vars`)
Missing(names, processEnv) ==
    SelectSeq(names, LAMBDA v : ~Truthy(processEnv, v))

\* The .env file: absent, unreadable (readFileSync throws), or a text of lines.
EnvKeys == {"PRIVATE_KEY", "XMTP_ENV"}
EnvLines ==
    { <<"PRIVATE_KEY", "=", "filekey">>,
      <<"PRIVATE_KEY", "=">>,
      <<"#", "PRIVATE_KEY", "=", "filekey">>,
      <<" ", "XMTP_ENV", " ", "=", " ", "dev", " ">>,
      <<"XMTP_ENV", "=", "a", "=", "b">>,
      <<"XMTP_ENV">>,
      <<" ", "#", "XMTP_ENV", "=", "dev">>,
      <<" ">> }
UpTo(n, S) == UNION { [1..m -> S] : m \in 0..n }
EnvFiles ==
    { [state |-> "absent", lines |-> << >>], [state |-> "unreadable", lines |-> << >>] }
    \cup { [state |-> "readable", lines |-> l] : l \in UpTo(MaxLines, EnvLines) }
EnvValues == { << >>, <<"envvalue">> }
ProcessEnvs == UNION { [keys -> EnvValues] : keys \in SUBSET EnvKeys }

NoEnvCall ==
    [pc |-> "none", vars |-> << >>, file |-> [state |-> "absent", lines |-> << >>],
     env0 |-> << >>, processEnv |-> << >>, outcome |-> Pending]

\* the whole synchronous call
validateEnvironment ==
    /\ env.pc = "ready"
    /\ LET names == env.vars
           missing == Missing(names, env.processEnv)
           missingSet == { missing[i] : i \in 1..Len(missing) }
           envVars == parseLines(env.file.lines, << >>)
           filled == IF missing # << >> /\ env.file.state = "readable"
                     THEN Backfill(env.processEnv, names, missingSet, envVars)
                     ELSE env.processEnv
           stillMissing == Missing(names, filled)
       IN env' = [env EXCEPT
                    !.processEnv = filled,
                    !.pc = IF stillMissing # << >> THEN "exited" ELSE "returned",
                    !.outcome =
                        IF stillMissing # << >>
                        THEN [exit |-> 1, reported |-> stillMissing]
                        ELSE [returned |->
                                [k \in { names[i] : i \in 1..Len(names) } |-> filled[k]]]]
    /\ UNCHANGED <<svcVars, subscriber, isConnected, subscribed, handled, relayCalls,
                   crashed, mainPc, exitStatus, bus, stop, nStops, lastEvent,
                   util, batch>>

-----------------------------------------------------------------------------
\* The service specification

Configs == [privateKey : {"valid", "invalid"}]
AllCanMessageMaps == UNION { CanMessageMaps(toLowerCase(a)) : a \in Recipients }

\* the state after construction, but for the validateEnvironment call
ProcessInit ==
    /\ config \in [Services -> Configs]
    /\ client = [s \in Services |-> NoClient]
    /\ nCreate = 0
    /\ inv = [i \in Callers |-> Idle]
    /\ subscriber = "null"
    /\ isConnected = FALSE
    /\ subscribed = FALSE
    /\ handled = << >>
    /\ relayCalls = << >>
    /\ crashed = FALSE
    /\ mainPc = "start"
    /\ exitStatus = "no"
    /\ bus = "none"
    /\ stop = [by \in StopCallers |-> NotStopping]
    /\ nStops = 0
    /\ lastEvent = "none"
    /\ util = NoUtil
    /\ batch = NoBatch

Init == ProcessInit /\ env = NoEnvCall

Next ==
    \/ \E i \in Callers, s \in Services : initializeClient(i, s)
    \/ \E i \in Relayers, s \in Services, a \in Recipients : sendMessage(i, s, a)
    \/ \E i \in Callers : DecodeKeyResolved(i)
    \/ \E i \in Callers, e \in Thrown : DecodeKeyRejected(i, e)
    \/ \E i \in Callers : CreateResolved(i)
    \/ \E i \in Callers, e \in Thrown : CreateRejected(i, e)
    \/ \E i \in Callers : InitializeClientReturns(i)
    \/ \E i \in Callers : SendAfterInit(i)
    \/ \E i \in Callers : SyncResolved(i)
    \/ \E i \in Callers, e \in Thrown : SyncRejected(i, e)
    \/ \E i \in Callers : ScanAfterInit(i)
    \/ \E i \in Callers, w \in ConvList : ListResolved(i, w)
    \/ \E i \in Callers : ListRejected(i)
    \/ \E i \in Callers, st \in MemberStates : MemberResolved(i, st)
    \/ \E i \in Callers : MemberRejected(i)
    \/ \E i \in Callers : ScanCompletes(i)
    \/ \E i \in Callers, c \in ConvIds \cup {NoConv} : GetDmResolved(i, c)
    \/ \E i \in Callers, e \in Thrown : GetDmRejected(i, e)
    \/ \E i \in Callers, m \in AllCanMessageMaps : CanMessageResolved(i, m)
    \/ \E i \in Callers, e \in Thrown : CanMessageRejected(i, e)
    \/ \E i \in Callers : NewDmResolved(i, "dmNew")
    \/ \E i \in Callers, e \in Thrown : NewDmRejected(i, e)
    \/ \E i \in Callers, id \in MessageIds : SendResolved(i, [id |-> id])
    \/ \E i \in Callers, e \in Thrown : SendRejected(i, e)
    \/ \E s \in Services : close(s)

Spec == Init /\ [][Next]_vars

\* The pipeline steps of one caller
PipelineStep(i) ==
    \/ DecodeKeyResolved(i)
    \/ \E e \in Thrown : DecodeKeyRejected(i, e)
    \/ CreateResolved(i)
    \/ \E e \in Thrown : CreateRejected(i, e)
    \/ SendAfterInit(i)
    \/ SyncResolved(i)
    \/ \E e \in Thrown : SyncRejected(i, e)
    \/ ScanAfterInit(i)
    \/ \E w \in ConvList : ListResolved(i, w)
    \/ ListRejected(i)
    \/ \E st \in MemberStates : MemberResolved(i, st)
    \/ MemberRejected(i)
    \/ ScanCompletes(i)
    \/ \E c \in ConvIds \cup {NoConv} : GetDmResolved(i, c)
    \/ \E e \in Thrown : GetDmRejected(i, e)
    \/ \E m \in AllCanMessageMaps : CanMessageResolved(i, m)
    \/ \E e \in Thrown : CanMessageRejected(i, e)
    \/ NewDmResolved(i, "dmNew")
    \/ \E e \in Thrown : NewDmRejected(i, e)
    \/ \E id \in MessageIds : SendResolved(i, [id |-> id])
    \/ \E e \in Thrown : SendRejected(i, e)

\* sendXMTPMessage on its own service
UtilNext ==
    \/ \E a \in Recipients : sendXMTPMessage(a)
    \/ \E m \in AllCanMessageMaps : UtilCanMessageResolved(m)
    \/ UtilCanMessageRejected
    \/ PipelineStep(UtilCaller)
    \/ UtilAfterSend
    \/ UtilReturns
UtilSpec == Init /\ [][UtilNext]_vars

\* sendMessages on a service of its own
BatchNext ==
    \/ \E r \in RecipientLists : sendMessages(r)
    \/ PipelineStep(UtilCaller)
    \/ BatchAfterSend
BatchSpec == Init /\ [][BatchNext]_vars

\* validateEnvironment applied to every list of required keys, process
\* environment and .env file within the bounds
EnvInit ==
    /\ ProcessInit
    /\ config = [s \in Services |-> [privateKey |-> "valid"]]
    /\ env \in { [pc |-> "ready", vars |-> v, file |-> f, env0 |-> e,
                   processEnv |-> e, outcome |-> Pending] :
                  v \in UpTo(MaxVars, EnvKeys), f \in EnvFiles, e \in ProcessEnvs }
EnvNext == validateEnvironment
EnvSpec == EnvInit /\ [][EnvNext]_vars

-----------------------------------------------------------------------------
\* EthereumRedisListener (lines 9-91) and main (lines 93-122)

\* Bus payloads as token sequences, and JSON.parse on them: an object is
\* "{" key ":" value ("," key ":" value)* "}" or "{" "}".
Payloads ==
    { <<"{", "ethereumAddress", ":", "0xAB", ",", "message", ":", "hi", "}">>,
      <<"{", "ethereumAddress", ":", "0xAB", ",", "message", ":", "hi">>,
      <<"{", "}">>,
      <<"hello">> }

IsJSONObject(text) ==
    /\ Len(text) >= 2
    /\ text[1] = "{"
    /\ text[Len(text)] = "}"
    /\ \/ Len(text) = 2
       \/ /\ Len(text) % 4 = 1
          /\ \A k \in 0..((Len(text) - 5) \div 4) :
                /\ text[4 * k + 3] = ":"
                /\ (4 * k + 5 = Len(text) \/ text[4 * k + 5] = ",")

\* JSON.parse(message): the parsed object, or a SyntaxError
JSONparse(text) ==
    IF IsJSONObject(text)
    THEN [ok |-> TRUE,
          value |-> [key \in { text[4 * k + 2] : k \in 0..((Len(text) - 5) \div 4) }
                       |-> LET k == CHOOSE k \in 0..((Len(text) - 5) \div 4) :
                                       text[4 * k + 2] = key
                           IN text[4 * k + 4]]]
    ELSE [ok |-> FALSE, value |-> << >>]

Running == exitStatus = "no" /\ ~crashed

\* main calls connect (line 110): lines 15-31, up to `await this.subscriber.connect()`
connect ==
    /\ Running
    /\ mainPc = "start"
    /\ subscriber' = "created"
    /\ bus' = "open"
    /\ mainPc' = "connecting"
    /\ UNCHANGED <<isConnected, subscribed, handled, relayCalls, crashed, exitStatus,
                   svcVars, env, util, batch, lastEvent, stop, nStops>>

\* the 'connect' event handler (lines 21-24)
ConnectEvent ==
    /\ Running
    /\ bus = "open"
    /\ isConnected' = TRUE
    /\ lastEvent' = "connect"
    /\ UNCHANGED <<subscriber, subscribed, handled, relayCalls, crashed, mainPc,
                   exitStatus, svcVars, env, util, batch, bus, stop, nStops>>

\* ErrorEvent as it would be if the handler only logged the error
ErrorEvent_staysConnected ==
    /\ Running
    /\ bus = "open"
    /\ lastEvent' = "error"
    /\ UNCHANGED <<subscriber, isConnected, subscribed, handled, relayCalls, crashed,
                   mainPc, exitStatus, svcVars, env, util, batch, bus, stop, nStops>>

\* the 'error' event handler (lines 26-29)
ErrorEvent ==
    /\ Running
    /\ bus = "open"
    /\ isConnected' = FALSE
    /\ lastEvent' = "error"
    /\ UNCHANGED <<subscriber, subscribed, handled, relayCalls, crashed, mainPc,
                   exitStatus, svcVars, env, util, batch, bus, stop, nStops>>

\* connect() resolved; main calls subscribe (line 111): lines 39-42
ConnectResolved ==
    /\ Running
    /\ mainPc = "connecting"
    /\ isConnected
    /\ mainPc' = "subscribing"
    /\ UNCHANGED <<subscriber, isConnected, subscribed, handled, relayCalls, crashed,
                   exitStatus, svcVars, env, util, batch, lastEvent, bus, stop, nStops>>

\* connect() rejected: lines 32-35, then main's catch (lines 118-121)
ConnectRejected ==
    /\ Running
    /\ mainPc = "connecting"
    /\ mainPc' = "exited"
    /\ exitStatus' = "1"
    /\ UNCHANGED <<subscriber, isConnected, subscribed, handled, relayCalls, crashed,
                   svcVars, env, util, batch, lastEvent, bus, stop, nStops>>

\* subscribe() resolved: the callback of line 42 is in place; lines 46, 113-116
SubscribeResolved ==
    /\ Running
    /\ mainPc = "subscribing"
    /\ subscribed' = TRUE
    /\ mainPc' = "listening"
    /\ UNCHANGED <<subscriber, isConnected, handled, relayCalls, crashed, exitStatus,
                   svcVars, env, util, batch, lastEvent, bus, stop, nStops>>

\* subscribe() rejected: lines 47-50, then main's catch (lines 118-121)
SubscribeRejected ==
    /\ Running
    /\ mainPc = "subscribing"
    /\ mainPc' = "exited"
    /\ exitStatus' = "1"
    /\ UNCHANGED <<subscriber, isConnected, subscribed, handled, relayCalls, crashed,
                   svcVars, env, util, batch, lastEvent, bus, stop, nStops>>

\* handleMessage as it would be without the try/catch around JSON.parse
handleMessage_rethrows(message) ==
    /\ Running
    /\ subscribed
    /\ bus = "open"
    /\ Len(handled) < MaxMsgs
    /\ handled' = Append(handled, [raw |-> message, parsed |-> JSONparse(message)])
    /\ crashed' = ~JSONparse(message).ok
    /\ UNCHANGED <<subscriber, isConnected, subscribed, relayCalls, mainPc,
                   exitStatus, svcVars, env, util, batch, lastEvent, bus, stop, nStops>>

\* handleMessage as it would be if it started the relay for a parsed message
\* and, like the callback of line 43, did not await it
handleMessage_relaysWithoutAwait(message) ==
    /\ Running
    /\ subscribed
    /\ bus = "open"
    /\ Len(handled) < MaxMsgs
    /\ handled' = Append(handled, [raw |-> message, parsed |-> JSONparse(message)])
    /\ relayCalls' =
          IF JSONparse(message).ok
          THEN Append(relayCalls, [payload |-> JSONparse(message).value, done |-> FALSE])
          ELSE relayCalls
    /\ UNCHANGED <<subscriber, isConnected, subscribed, crashed, mainPc,
                   exitStatus, svcVars, env, util, batch, lastEvent, bus, stop, nStops>>

\* The bus delivers `message`: the callback of lines 42-44 runs handleMessage
\* (lines 53-70). The try block parses and logs; the catch block logs the
\* parse error. Nothing else is done with the parsed object.
handleMessage(message) ==
    /\ Running
    /\ subscribed
    /\ bus = "open"
    /\ Len(handled) < MaxMsgs
    /\ handled' = Append(handled, [raw |-> message, parsed |-> JSONparse(message)])
    /\ UNCHANGED <<subscriber, isConnected, subscribed, relayCalls, crashed, mainPc,
                   exitStatus, svcVars, env, util, batch, lastEvent, bus, stop, nStops>>

\* disconnect (lines 72-82), from the call up to its first await: nothing when
\* this.subscriber is null, else `await this.subscriber.unsubscribe(CHANNEL)`
EnterDisconnect ==
    IF subscriber = "null"
    THEN [NotStopping EXCEPT !.pc = "done"]
    ELSE [NotStopping EXCEPT !.pc = "unsub", !.ops = <<Issued("unsubscribe")>>]

\* a user of the class calls disconnect(); it may call it again once it returned
disconnect ==
    /\ Running
    /\ stop["api"].pc \in {"idle", "done"}
    /\ nStops < MaxStops
    /\ nStops' = nStops + 1
    /\ stop' = [stop EXCEPT !["api"] = EnterDisconnect]
    /\ UNCHANGED <<subscriber, isConnected, subscribed, handled, relayCalls, crashed,
                   mainPc, exitStatus, bus, svcVars, env, util, batch, lastEvent>>

\* SIGINT or SIGTERM arrives: the handler (lines 96-101, 103-107) calls
\* disconnect(). The handlers are registered, and connect() called, in main's
\* first synchronous run, so no signal is handled before that.
Signal(sig) ==
    /\ Running
    /\ mainPc # "start"
    /\ stop[sig].pc = "idle"
    /\ nStops < MaxStops
    /\ nStops' = nStops + 1
    /\ stop' = [stop EXCEPT ![sig] = EnterDisconnect]
    /\ UNCHANGED <<subscriber, isConnected, subscribed, handled, relayCalls, crashed,
                   mainPc, exitStatus, bus, svcVars, env, util, batch, lastEvent>>

\* unsubscribe resolved: `await this.subscriber.quit()` (line 76)
UnsubscribeResolved(by) ==
    /\ Running
    /\ stop[by].pc = "unsub"
    /\ subscribed' = FALSE
    /\ stop' = [stop EXCEPT ![by] =
                  [@ EXCEPT !.pc = "quit", !.ops = Append(@, Issued("quit"))]]
    /\ UNCHANGED <<subscriber, isConnected, handled, relayCalls, crashed, mainPc,
                   exitStatus, bus, nStops, svcVars, env, util, batch, lastEvent>>

\* UnsubscribeRejected as it would be without the try/catch of disconnect: the
\* rejection leaves disconnect, and the handler awaiting it never resumes
UnsubscribeRejected_escapes(by) ==
    /\ Running
    /\ stop[by].pc = "unsub"
    /\ stop' = [stop EXCEPT ![by] = [@ EXCEPT !.pc = "threw", !.threw = TRUE]]
    /\ UNCHANGED <<subscriber, isConnected, subscribed, handled, relayCalls, crashed,
                   mainPc, exitStatus, bus, nStops, svcVars, env, util, batch, lastEvent>>

\* unsubscribe rejected: the catch block (lines 79-81) logs, quit is not called
UnsubscribeRejected(by) ==
    /\ Running
    /\ stop[by].pc = "unsub"
    /\ stop' = [stop EXCEPT ![by] = [@ EXCEPT !.pc = "done"]]
    /\ UNCHANGED <<subscriber, isConnected, subscribed, handled, relayCalls, crashed,
                   mainPc, exitStatus, bus, nStops, svcVars, env, util, batch, lastEvent>>

\* quit resolved: the connection is closed; line 77. Neither this.subscriber
\* nor this.isConnected is assigned.
QuitResolved(by) ==
    /\ Running
    /\ stop[by].pc = "quit"
    /\ bus' = "closed"
    /\ stop' = [stop EXCEPT ![by] = [@ EXCEPT !.pc = "done"]]
    /\ UNCHANGED <<subscriber, isConnected, subscribed, handled, relayCalls, crashed,
                   mainPc, exitStatus, nStops, svcVars, env, util, batch, lastEvent>>

\* quit rejected: the catch block logs
QuitRejected(by) ==
    /\ Running
    /\ stop[by].pc = "quit"
    /\ stop' = [stop EXCEPT ![by] = [@ EXCEPT !.pc = "done"]]
    /\ UNCHANGED <<subscriber, isConnected, subscribed, handled, relayCalls, crashed,
                   mainPc, exitStatus, bus, nStops, svcVars, env, util, batch, lastEvent>>

\* the signal handler's `await listener.disconnect()` completes: process.exit(0)
ShutdownExit(sig) ==
    /\ Running
    /\ stop[sig].pc = "done"
    /\ exitStatus' = "0"
    /\ UNCHANGED <<subscriber, isConnected, subscribed, handled, relayCalls, crashed,
                   mainPc, bus, stop, nStops, svcVars, env, util, batch, lastEvent>>

\* getStatus (lines 84-90); the timestamp is the clock's reading
CHANNEL == "ethereum-messages"
getStatus == [connected |-> isConnected, channel |-> CHANNEL, timestamp |-> "now"]

ListenerNext ==
    \/ connect
    \/ ConnectEvent
    \/ ErrorEvent
    \/ ConnectResolved
    \/ ConnectRejected
    \/ SubscribeResolved
    \/ SubscribeRejected
    \/ \E message \in Payloads : handleMessage(message)
    \/ disconnect
    \/ \E sig \in Signals : Signal(sig)
    \/ \E by \in StopCallers : UnsubscribeResolved(by)
    \/ \E by \in StopCallers : UnsubscribeRejected(by)
    \/ \E by \in StopCallers : QuitResolved(by)
    \/ \E by \in StopCallers : QuitRejected(by)
    \/ \E sig \in Signals : ShutdownExit(sig)

\* the listener reads nothing of the services' configuration
ListenerInit == Init /\ config = [s \in Services |-> [privateKey |-> "valid"]]
ListenerSpec == ListenerInit /\ [][ListenerNext]_vars

\* The promises of unsubscribe and quit settle, and a handler whose await has
\* completed runs on.
ListenerFairness ==
    /\ \A by \in StopCallers :
          /\ WF_vars(UnsubscribeResolved(by) \/ UnsubscribeRejected(by))
          /\ WF_vars(QuitResolved(by) \/ QuitRejected(by))
    /\ \A sig \in Signals : WF_vars(ShutdownExit(sig))
\* Startup and shutdown alone. handleMessage assigns nothing but the log of
\* handled messages, which no other action reads, so the bus messages are left
\* out where only startup and shutdown are examined.
ShutdownNext ==
    \/ connect
    \/ ConnectEvent
    \/ ErrorEvent
    \/ ConnectResolved
    \/ ConnectRejected
    \/ SubscribeResolved
    \/ SubscribeRejected
    \/ disconnect
    \/ \E sig \in Signals : Signal(sig)
    \/ \E by \in StopCallers : UnsubscribeResolved(by)
    \/ \E by \in StopCallers : UnsubscribeRejected(by)
    \/ \E by \in StopCallers : QuitResolved(by)
    \/ \E by \in StopCallers : QuitRejected(by)
    \/ \E sig \in Signals : ShutdownExit(sig)
FairShutdownSpec == ListenerInit /\ [][ShutdownNext]_vars /\ ListenerFairness

-----------------------------------------------------------------------------
\* Properties of the relay pipeline (checked under Spec)

Has(seq, x) == \E k \in 1..Len(seq) : seq[k] = x
IsSuffix(sfx, seq) ==
    /\ Len(sfx) <= Len(seq)
    /\ \A k \in 1..Len(sfx) : seq[Len(seq) - Len(sfx) + k] = sfx[k]
Relays == { i \in Callers : inv[i].kind = "sendMessage" }
Returned == { i \in Relays : inv[i].pc = "done" }
\* an exception reached the catch block of sendMessage
CaughtAtTop(i) == \E k \in 1..Len(inv[i].thrown) : inv[i].thrown[k] # "scan"

\* C1: sendMessage never raises: every invocation ends by returning a result,
\* and whenever its catch block caught an exception the result is
\* {success: false, error} with error a non-empty string.
C1_FailureHasNonEmptyError ==
    \A i \in Returned :
        /\ "success" \in DOMAIN inv[i].result
        /\ CaughtAtTop(i) =>
              /\ inv[i].result.success = FALSE
              /\ "error" \in DOMAIN inv[i].result
              /\ Len(inv[i].result.error) > 0

\* C2: when getDmByInboxId returns an existing conversation, the message is sent
\* through that conversation, neither Client.canMessage nor newDm is called, and
\* a successful send yields {success: true, messageId}.
C2_ExistingConversationUsed ==
    \A i \in Relays :
        inv[i].existing # NoConv =>
            /\ inv[i].inboxId # NoInbox
            /\ ~Has(inv[i].trace, "canMessage")
            /\ ~Has(inv[i].trace, "newDm")
            /\ Has(inv[i].trace, "send")
            /\ inv[i].conv = inv[i].existing
            /\ inv[i].pc \in {"send", "done"}
            /\ (inv[i].pc = "done" /\ ~Has(inv[i].thrown, "send")) =>
                  /\ inv[i].result.success = TRUE
                  /\ inv[i].result.messageId \in MessageIds

C2_Witness ==
    \E i \in Returned :
        /\ inv[i].existing # NoConv
        /\ inv[i].result.success = TRUE

\* C3: when no usable conversation exists and the capability check says the
\* address cannot receive, the result is {success: false, error} with the
\* recipient address in the error, and neither newDm nor send is called.
C3_CannotReceiveFails ==
    \A i \in Relays :
        inv[i].canReceive = "no" =>
            /\ inv[i].existing = NoConv
            /\ inv[i].pc = "done"
            /\ inv[i].result.success = FALSE
            /\ Has(inv[i].result.error, inv[i].addr)
            /\ ~Has(inv[i].trace, "newDm")
            /\ ~Has(inv[i].trace, "send")

C3_Witness ==
    \E i \in Returned :
        /\ inv[i].canReceive = "no"
        /\ Has(inv[i].trace, "canMessage")

\* C4: when no usable conversation exists and the capability check says the
\* address can receive, creation is attempted from the raw address; a failed
\* creation yields {success: false, error} with an error that wraps the
\* failure's message, and no send; a successful creation is followed by a send
\* through the new conversation.
C4_CreationAttempted ==
    \A i \in Relays :
        inv[i].canReceive = "yes" =>
            /\ inv[i].existing = NoConv
            /\ inv[i].pc \in {"new_dm", "send", "done"}
            /\ Has(inv[i].trace, "newDm") => inv[i].newDmArg = inv[i].addr
            /\ ~Has(inv[i].trace, "newDm") => inv[i].dmError = <<NullDeref>>
            /\ inv[i].dmError # << >> =>
                  /\ inv[i].pc = "done"
                  /\ inv[i].result.success = FALSE
                  /\ IsSuffix(MessageOf(inv[i].dmError[1]), inv[i].result.error)
                  /\ Len(inv[i].result.error) > Len(MessageOf(inv[i].dmError[1]))
                  /\ ~Has(inv[i].trace, "send")
            /\ (inv[i].dmError = << >> /\ inv[i].pc # "new_dm") =>
                  /\ inv[i].conv = "dmNew"
                  /\ Has(inv[i].trace, "send")

C4_Witness ==
    \E i \in Returned :
        /\ inv[i].canReceive = "yes"
        /\ Has(inv[i].trace, "newDm")
        /\ inv[i].dmError # << >>
        /\ inv[i].dmError[1].message = <<"network down">>

\* C5 as claimed: an exception in any of steps 1-6, the inbox scan of step 3
\* included, makes the invocation return {success: false, error}.
C5_AnyExceptionFails ==
    \A i \in Returned :
        inv[i].thrown # << >> => inv[i].result.success = FALSE

\* C5 as amended: an exception outside the inbox scan makes the invocation
\* return {success: false, error}; an exception inside the scan is caught by
\* getInboxIdFromAddress, which returns null, and the invocation goes on with
\* the capability check as if no inbox had been found.
C5_ExceptionOutsideScanFails ==
    \A i \in Relays :
        /\ (i \in Returned /\ CaughtAtTop(i)) =>
              /\ inv[i].result.success = FALSE
              /\ "error" \in DOMAIN inv[i].result
        /\ Has(inv[i].thrown, "scan") =>
              /\ inv[i].inboxId = NoInbox
              /\ ~Has(inv[i].trace, "getDmByInboxId")
              /\ inv[i].pc \in {"scan_ret", "can_msg", "new_dm", "send", "done"}
              /\ inv[i].pc \in {"new_dm", "send"} => Has(inv[i].trace, "canMessage")

C5_Witness ==
    \E i \in Returned :
        /\ inv[i].thrown = <<"scan", "send">>
        /\ inv[i].result.success = FALSE

C9_SecondInitializeDoesNotConstruct ==
    [][\A i \in Callers :
          (/\ inv[i].pc \in {"idle", "sync"}
           /\ inv'[i].pc \in {"init_ret", "init_key"}
           /\ client[inv'[i].svc] # NoClient)
          => /\ inv'[i].pc = "init_ret"
             /\ inv'[i].initErr = << >>
             /\ inv'[i].trace = inv[i].trace
             /\ nCreate' = nCreate
             /\ client' = client]_vars

C9_Witness ==
    \E i \in Callers :
        /\ inv[i].kind = "initializeClient"
        /\ inv[i].pc = "done"
        /\ inv[i].result = [returned |-> TRUE]
        /\ inv[i].trace = << >>
        /\ client[inv[i].svc] # NoClient

\* C10: at most one client handle is constructed and live per process: over
\* any interleaving, Client.create is never run while a handle from an earlier
\* construction exists or is being constructed.
C10_AtMostOneClient ==
    Cardinality({ i \in Callers : inv[i].pc = "init_create" })
        + Cardinality({ s \in Services : client[s] # NoClient }) <= 1

IsPrefix(pfx, seq) ==
    /\ Len(pfx) <= Len(seq)
    /\ \A k \in 1..Len(pfx) : seq[k] = pfx[k]

\* C11: a failed client construction does not poison later attempts. The step
\* in which initializeClient fails throws an Error whose message starts with
\* 'Failed to initialize XMTP client' and leaves the cached handle as it was
\* (empty, unless another call filled it meanwhile); and a call of
\* initializeClient that finds the cache empty runs construction from the
\* start, whatever failed before.
C11_FailedConstructionDoesNotPoison ==
    [][\A i \in Callers :
          /\ (inv[i].initErr = << >> /\ inv'[i].initErr # << >>) =>
                /\ inv'[i].initErr[1].isError
                /\ IsPrefix(<<"Failed to initialize XMTP client: ">>,
                            inv'[i].initErr[1].message)
                /\ client' = client
                /\ inv'[i].pc = "init_ret"
          /\ (/\ inv[i].pc \in {"idle", "sync"}
              /\ inv'[i].pc \in {"init_ret", "init_key"}
              /\ client[inv'[i].svc] = NoClient
              /\ config[inv'[i].svc].privateKey = "valid") =>
                /\ inv'[i].pc = "init_key"
                /\ inv'[i].initErr = << >>
          /\ (inv[i].pc = "init_ret" /\ inv[i].ret = "direct"
              /\ inv[i].initErr # << >> /\ inv'[i].pc = "done") =>
                inv'[i].result = [threw |-> inv[i].initErr[1]]]_vars

\* an initializeClient call threw after Client.create rejected; a call started
\* after that constructed a client, which is now cached
C11_Witness ==
    \E i, j \in Callers :
        /\ inv[j].pc = "done"
        /\ "threw" \in DOMAIN inv[j].result
        /\ inv[j].trace = <<"create">>
        /\ inv[i].afterFailure
        /\ inv[i].svc = inv[j].svc
        /\ inv[i].pc = "done"
        /\ inv[i].trace = <<"create">>
        /\ inv[i].result = [returned |-> TRUE]
        /\ client[inv[i].svc] = inv[i].handle

\* positions of an SDK call in a trace
At(trace, op) == { k \in 1..Len(trace) : trace[k] = op }
Before(trace, op1, op2) ==
    \A k2 \in At(trace, op2) : \E k1 \in At(trace, op1) : k1 < k2
\* the SDK call an invocation is awaiting at each position
Awaited(pc) ==
    CASE pc = "init_create" -> "create"
      [] pc = "sync" -> "sync"
      [] pc = "list" -> "list"
      [] pc = "member" -> "inboxStateFromInboxIds"
      [] pc = "get_dm" -> "getDmByInboxId"
      [] pc = "can_msg" -> "canMessage"
      [] pc = "new_dm" -> "newDm"
      [] pc = "send" -> "send"
      [] OTHER -> "none"

\* C18: within a relay invocation the steps are ordered and awaited. The sync
\* comes before conversations are listed, the capability check before any
\* creation, send is called at most once and only on a conversation that was
\* found or created before; while an SDK call is pending it is the last call
\* made; and {success: true} is returned only when the last call, the send,
\* has completed.
C18_StepsOrderedAndAwaited ==
    \A i \in Relays :
        LET trace == inv[i].trace IN
        /\ Before(trace, "sync", "list")
        /\ Before(trace, "sync", "inboxStateFromInboxIds")
        /\ Before(trace, "sync", "getDmByInboxId")
        /\ Before(trace, "canMessage", "newDm")
        /\ Cardinality(At(trace, "send")) <= 1
        /\ Cardinality(At(trace, "sync")) <= 1
        /\ Has(trace, "send") =>
              /\ inv[i].conv # NoConv
              /\ \/ inv[i].conv = inv[i].existing /\ Before(trace, "getDmByInboxId", "send")
                 \/ inv[i].conv = "dmNew" /\ Before(trace, "newDm", "send")
        /\ Awaited(inv[i].pc) # "none" => trace[Len(trace)] = Awaited(inv[i].pc)
        /\ (inv[i].pc = "done" /\ inv[i].result.success) =>
              /\ trace[Len(trace)] = "send"
              /\ ~Has(inv[i].thrown, "send")

\* a relay that went through every step: sync, scan, capability check,
\* creation, send
C18_Witness ==
    \E i \in Returned :
        /\ inv[i].result.success
        /\ inv[i].trace = <<"create", "sync", "list", "inboxStateFromInboxIds",
                            "inboxStateFromInboxIds", "canMessage", "newDm", "send">>

\* the member inboxes of the listed conversations, in conversation-then-member
\* order
RECURSIVE Enumerate(_)
Enumerate(convs) ==
    IF convs = << >> THEN << >> ELSE Head(convs).members \o Enumerate(Tail(convs))
\* a fetched member state holds an identifier equal to the address, letter case
\* aside
KnownAs(memberState, address) ==
    /\ memberState # << >>
    /\ \E k \in 1..Len(memberState[1].identifiers) :
          toLowerCase(memberState[1].identifiers[k]) = toLowerCase(address)

\* C19: when the scan returns an inbox id, it is the member fetched last, that
\* member is at its place in the conversation-then-member enumeration, its
\* fetched identifiers hold the target address compared case-insensitively,
\* and no member fetched before it matched; while the scan goes on no fetched
\* member has matched; and when the scan returns null without having failed,
\* every member was fetched and none matched.
C19_ScanReturnsFirstMatch ==
    \A i \in Relays :
        LET r == inv[i]
            members == Enumerate(r.convs)
            n == Len(r.fetched)
            failed == Has(r.thrown, "scan")
        IN /\ r.pc \in {"member", "scan_ret"} =>
                 /\ n <= Len(members)
                 /\ \A k \in 1..n :
                       r.fetched[k] \in
                           { << >>, <<[identifiers |-> InboxIdentifiers(members[k])]>> }
           /\ r.pc = "member" =>
                 /\ \A k \in 1..n : ~KnownAs(r.fetched[k], r.addr)
                 /\ members[n + 1] = r.convs[r.ci].members[r.mi]
           /\ (r.pc = "scan_ret" /\ r.inboxId # NoInbox) =>
                 /\ n >= 1
                 /\ r.inboxId = members[n]
                 /\ KnownAs(r.fetched[n], r.addr)
                 /\ \A k \in 1..(n - 1) : ~KnownAs(r.fetched[k], r.addr)
           /\ (r.pc = "scan_ret" /\ r.inboxId = NoInbox /\ ~failed) =>
                 /\ n = Len(members)
                 /\ \A k \in 1..n : ~KnownAs(r.fetched[k], r.addr)
           /\ failed => r.inboxId = NoInbox

\* the scan passed a member whose state was not known and returned a later
\* member, of the next conversation
C19_Witness ==
    \E i \in Relays :
        /\ inv[i].pc = "scan_ret"
        /\ inv[i].inboxId = "ibA2"
        /\ inv[i].addr = "0xAB"
        /\ inv[i].fetched[2] = << >>
        /\ Len(inv[i].fetched) = 3

\* C20: after close() has dropped the cached handle, a relay invocation that
\* was in flight at that moment never re-populates the cache: the
\* initializeClient call inside getInboxIdFromAddress (after the sync) does not
\* construct a client and cache it.
C20_InFlightNeverRepopulates ==
    \A i \in Relays :
        inv[i].closedDuring =>
            ~(/\ \E k \in At(inv[i].trace, "sync") :
                    \E k2 \in At(inv[i].trace, "create") : k < k2
              /\ client[inv[i].svc] # NoClient
              /\ client[inv[i].svc] = inv[i].handle)

-----------------------------------------------------------------------------
\* Properties of the listener (checked under ListenerSpec)

Field(object, key) == IF key \in DOMAIN object THEN object[key] ELSE "undefined"

\* C7: for every bus message that parses as JSON, the handler invokes the relay
\* pipeline with the payload's ethereumAddress and message. Stated here for the
\* payloads that carry both fields, which the claim covers.
C7_ParsedMessagesAreRelayed ==
    \A k \in 1..Len(handled) :
        (/\ handled[k].parsed.ok
         /\ {"ethereumAddress", "message"} \subseteq DOMAIN handled[k].parsed.value) =>
            \E j \in 1..Len(relayCalls) :
                relayCalls[j] =
                    [address |-> Field(handled[k].parsed.value, "ethereumAddress"),
                     message |-> Field(handled[k].parsed.value, "message")]

\* C8: a bus message that is not valid JSON does not crash the listener, leaves
\* the subscription in place, invokes no relay and is dropped.
C8_MalformedJSONIsDropped ==
    [][(/\ Len(handled') = Len(handled) + 1
        /\ ~handled'[Len(handled')].parsed.ok)
       => /\ ~crashed'
          /\ subscribed'
          /\ exitStatus' = "no"
          /\ relayCalls' = relayCalls]_vars

\* a malformed message was handled, and a later message after it
C8_Witness ==
    \E k \in 1..Len(handled) :
        /\ k < Len(handled)
        /\ ~handled[k].parsed.ok
        /\ handled[Len(handled)].parsed.ok
        /\ ~crashed

C13_DisconnectIsIdempotent ==
    \A by \in StopCallers :
        /\ ~stop[by].threw
        /\ bus = "none" => stop[by].ops = << >>
        /\ stop[by].ops # << >> => stop[by].ops[1].on # "closed"

\* C14: after disconnect has completed and the connection is closed, the
\* listener is DISCONNECTED: the status snapshot reports connected = false.
C14_StatusAfterDisconnect ==
    \A by \in StopCallers :
        (stop[by].pc = "done" /\ bus = "closed") => getStatus.connected = FALSE

\* C15: a bus error event sets the connected flag to false and changes nothing
\* else: the process neither crashes nor exits, main stays where it is and the
\* subscription is kept. The listener never calls connect again, and the flag
\* goes back to true only in the handler of a 'connect' event of the bus.
C15_ErrorFlipsFlagOnly ==
    [][/\ lastEvent' = "error" => ~isConnected'
       /\ (lastEvent' = "error" /\ <<lastEvent, isConnected>>' # <<lastEvent, isConnected>>) =>
             /\ ~crashed'
             /\ exitStatus' = exitStatus
             /\ mainPc' = mainPc
             /\ subscriber' = subscriber
             /\ subscribed' = subscribed
             /\ bus' = bus
       /\ (mainPc' = "connecting" /\ mainPc # "connecting") =>
             /\ mainPc = "start"
             /\ lastEvent = "none"
       /\ (isConnected' /\ ~isConnected) =>
             /\ lastEvent' = "connect"
             /\ bus = "open"
             /\ mainPc' = mainPc]_vars

\* an error event came while the listener was subscribed; the process runs on
\* with the flag down
C15_Witness ==
    /\ lastEvent = "error"
    /\ ~isConnected
    /\ subscribed
    /\ mainPc = "listening"
    /\ Running

Signalled == \E sig \in Signals : stop[sig].pc # "idle"

\* C16 as claimed: after every signal the process ends with exit code 0.
C16_ExitZeroAfterEverySignal ==
    (Signalled /\ exitStatus # "no") => exitStatus = "0"

\* C16 as amended. Exit code 0 is given only by a signal handler whose
\* disconnect() has returned; disconnect issues unsubscribe first and quit only
\* after unsubscribe has resolved; exit code 1 is given only by main's catch of
\* a connect or subscribe failure. When the bus promises settle, the process
\* ends after every signal, and with code 0 when startup was already complete.
C16_ShutdownAfterSignal ==
    /\ [](/\ exitStatus = "0" => \E sig \in Signals : stop[sig].pc = "done"
          /\ \A by \in StopCallers :
                /\ Len(stop[by].ops) >= 1 => stop[by].ops[1].op = "unsubscribe"
                /\ Len(stop[by].ops) >= 2 =>
                      /\ stop[by].ops[2].op = "quit"
                      /\ stop[by].pc \in {"quit", "done"}
                /\ Len(stop[by].ops) <= 2
          /\ exitStatus = "1" <=> mainPc = "exited")
    /\ Signalled ~> (exitStatus # "no")
    /\ (Signalled /\ mainPc = "listening") ~> (exitStatus = "0")

\* a signal came, unsubscribe failed, quit was not called, and the handler
\* exited with code 0
C16_Witness ==
    \E sig \in Signals :
        /\ stop[sig].pc = "done"
        /\ Len(stop[sig].ops) = 1
        /\ exitStatus = "0"
        /\ ~(\E by \in StopCallers \ {sig} : stop[by].pc # "idle")

-----------------------------------------------------------------------------
\* Properties of validateEnvironment (checked under EnvSpec)

\* What the .env file says about key k, read off the text: the value of the
\* last line that is not blank, does not start with "#", and has a non-empty
\* part before its first "=" that is k up to white space; the value is what
\* follows that "=", up to white space. No file, or no such line: nothing.
FirstEq(line) ==
    CHOOSE i \in 1..Len(line) : line[i] = "=" /\ \A j \in 1..(i - 1) : line[j] # "="
Assigns(line, k) ==
    /\ \E i \in 1..Len(line) : line[i] # " "
    /\ line[1] # "#"
    /\ \E i \in 1..Len(line) : line[i] = "="
    /\ FirstEq(line) > 1
    /\ trim(SubSeq(line, 1, FirstEq(line) - 1)) = <<k>>
FileValue(file, k) ==
    LET at == { n \in 1..Len(file.lines) : Assigns(file.lines[n], k) } IN
    IF file.state # "readable" \/ at = {} THEN << >>
    ELSE LET n == CHOOSE n \in at : \A m \in at : m <= n
             line == file.lines[n]
         IN trim(SubSeq(line, FirstEq(line) + 1, Len(line)))
Required == { env.vars[i] : i \in 1..Len(env.vars) }
StillMissing == { k \in Required : ~Truthy(env.env0, k) /\ FileValue(env.file, k) = << >> }

\* C17: when a required key is absent or empty both in the process environment
\* and in the .env file, validateEnvironment reports exactly the keys still
\* missing and exits with status 1; otherwise it returns a mapping with a
\* non-empty value for every required key, taken from the environment where
\* the environment has one and from the file where it has not; and no
\* non-empty value of the process environment is replaced.
C17_ReportsExactlyMissing ==
    env.pc \in {"returned", "exited"} =>
        /\ IF StillMissing # {}
           THEN /\ env.pc = "exited"
                /\ env.outcome.exit = 1
                /\ { env.outcome.reported[i] : i \in 1..Len(env.outcome.reported) }
                      = StillMissing
           ELSE /\ env.pc = "returned"
                /\ DOMAIN env.outcome.returned = Required
                /\ \A k \in Required :
                      /\ env.outcome.returned[k] # << >>
                      /\ env.outcome.returned[k] =
                            IF Truthy(env.env0, k) THEN env.env0[k]
                            ELSE FileValue(env.file, k)
        /\ \A k \in DOMAIN env.env0 :
              env.env0[k] # << >> =>
                  (k \in DOMAIN env.processEnv /\ env.processEnv[k] = env.env0[k])

\* PRIVATE_KEY came from the environment although the file has another value
\* for it, and XMTP_ENV was filled in from the file
C17_Witness ==
    /\ env.pc = "returned"
    /\ env.vars = <<"PRIVATE_KEY", "XMTP_ENV">>
    /\ Truthy(env.env0, "PRIVATE_KEY")
    /\ FileValue(env.file, "PRIVATE_KEY") = <<"filekey">>
    /\ ~Truthy(env.env0, "XMTP_ENV")
    /\ env.outcome.returned["PRIVATE_KEY"] = <<"envvalue">>
    /\ env.outcome.returned["XMTP_ENV"] = <<"a", "=", "b">>

-----------------------------------------------------------------------------
\* Properties of sendXMTPMessage (checked under UtilSpec)

\* C21: sendXMTPMessage never throws and returns a boolean; it returns true
\* only if sendMessage returned success = true; when the check made up front
\* says the address cannot receive it returns false and sendMessage is not
\* called; and once the finally block has run, before the function returns, the
\* service's cached handle is empty.
C21_UtilityReturnsBooleanAndCloses ==
    /\ ~util.threw
    /\ util.pc \in {"closing", "returned"} =>
          /\ util.ret \in { <<TRUE>>, <<FALSE>> }
          /\ client[UtilService] = NoClient
          /\ util.ret = <<TRUE>> =>
                /\ util.sent
                /\ inv[UtilCaller].pc = "done"
                /\ inv[UtilCaller].result.success
          /\ (util.sent /\ ~inv[UtilCaller].result.success) => util.ret = <<FALSE>>
          /\ util.canReceive = "no" =>
                /\ util.ret = <<FALSE>>
                /\ ~util.sent
                /\ inv[UtilCaller] = Idle
    /\ util.pc \in {"idle", "can_msg", "sending"} => util.ret = << >>
    /\ util.pc = "sending" => util.canReceive = "yes"

\* the call returned true after a relay that had constructed a client
C21_Witness ==
    /\ util.pc = "returned"
    /\ util.ret = <<TRUE>>
    /\ Has(inv[UtilCaller].trace, "create")
    /\ Has(inv[UtilCaller].trace, "send")
    /\ client[UtilService] = NoClient

-----------------------------------------------------------------------------
\* Properties of sendMessages (checked under BatchSpec)

\* a RelayResult: an object with a boolean `success`
RelayResults(result) ==
    /\ "success" \in DOMAIN result
    /\ result.success \in BOOLEAN

\* C22: sendMessages relays the recipients one after another in list order:
\* the relay in flight is the one for the first recipient without a result, the
\* k-th result is what the relay to the k-th recipient returned, no relay
\* throws, and the call returns only with one result per recipient, whether
\* earlier relays failed or not.
C22_OneResultPerRecipientInOrder ==
    LET n == Len(batch.results) IN
    /\ ~batch.threw
    /\ n <= Len(batch.recipients)
    /\ Len(batch.sentTo) = n
    /\ \A k \in 1..n :
          /\ batch.sentTo[k].address = batch.recipients[k].address
          /\ batch.results[k] = batch.sentTo[k].result
          /\ RelayResults(batch.results[k])
    /\ batch.pc = "relaying" =>
          /\ n < Len(batch.recipients)
          /\ inv[UtilCaller].kind = "sendMessage"
          /\ inv[UtilCaller].addr = batch.recipients[n + 1].address
    /\ batch.pc = "returned" => n = Len(batch.recipients)
    /\ batch.pc = "idle" => n = 0

\* a list of two different addresses was relayed; the first relay failed and
\* the second one succeeded
C22_Witness ==
    /\ batch.pc = "returned"
    /\ Len(batch.recipients) = 2
    /\ batch.recipients[1].address # batch.recipients[2].address
    /\ ~batch.results[1].success
    /\ batch.results[2].success

====
